---- MODULE Spec2Model ----
(***************************************************************************)
(* A model of wilo (src/src/main.rs): the Buffer (lines, cursor, viewport  *)
(* offsets) with its editing operations, and main with the Editor that     *)
(* builds the terminal, loads a file, draws the screen and feeds key       *)
(* events to the Buffer, one loop iteration per step.                      *)
(*                                                                         *)
(* Rows and columns are 0-based as in the source; TLA+ sequences are       *)
(* 1-based, so lines[cy] of the source is b.lines[b.cy + 1] here.          *)
(* Characters are one-character strings, a line is a sequence of them.     *)
(*                                                                         *)
(* A panic (Option::unwrap on None, Vec index out of range) ends the       *)
(* process; it is recorded in the field `panicked` and the other fields    *)
(* keep the values they had when the panicking operation was called.       *)
(* Terminal dimensions are drawn from h >= 2 and w >= 1: below that the    *)
(* usize subtractions `h - 2` and `w - 1` of move_caret overflow.          *)
(***************************************************************************)
EXTENDS Integers, Sequences, FiniteSets, TLC

\* ---- bounds of the model ----
MaxFileLen == 3      \* characters (newlines included) of the file opened
MaxLines   == 3      \* Enter is not pressed beyond this many lines
MaxChars   == 3      \* characters are not typed beyond this many in total
MaxTabAt   == 0      \* Tab is not pressed with more than this many characters
MaxW       == 2      \* terminal widths  1..MaxW
MaxH       == 3      \* terminal heights 2..MaxH

\* ---- alphabet ----
NL    == "\n"
Space == " "
Chars == {"a", Space}
TabWidth == 4

VARIABLES buffer, should_quit, pc, input, args, prev, term, usage, screen

vars == <<buffer, should_quit, pc, input, args, prev, term, usage, screen>>

\* ---- helpers ----
Min(a, b) == IF a < b THEN a ELSE b
Max(a, b) == IF a > b THEN a ELSE b

SeqsUpTo(S, n) == UNION {[1..k -> S] : k \in 0..n}

\* Vec::insert(i, e), Vec::remove(i) with 0-based i
VecInsert(s, i, e) == SubSeq(s, 1, i) \o <<e>> \o SubSeq(s, i + 1, Len(s))
VecRemove(s, i)    == SubSeq(s, 1, i) \o SubSeq(s, i + 2, Len(s))

RECURSIVE TotalChars(_)
TotalChars(ls) == IF ls = <<>> THEN 0 ELSE Len(Head(ls)) + TotalChars(Tail(ls))

\* BufRead::lines(): the text split at newlines, a final newline adding no line
RECURSIVE ReadLinesFrom(_, _)
ReadLinesFrom(s, cur) ==
    IF s = <<>> THEN (IF cur = <<>> THEN <<>> ELSE <<cur>>)
    ELSE IF Head(s) = NL THEN <<cur>> \o ReadLinesFrom(Tail(s), <<>>)
    ELSE ReadLinesFrom(Tail(s), Append(cur, Head(s)))

ReadLines(s) == ReadLinesFrom(s, <<>>)

Files == SeqsUpTo(Chars \cup {NL}, MaxFileLen)

\* ---- Buffer ----
BufferDefault ==
    [roff |-> 0, coff |-> 0, cx |-> 0, cy |-> 0, w |-> 0, h |-> 0,
     lines |-> << <<>> >>, panicked |-> FALSE]

Panic(b) == [b EXCEPT !.panicked = TRUE]

\* self.lines.get_mut(self.cy) is Some
HasLine(b) == b.cy < Len(b.lines)

\* fn line(&mut self): the line under the cursor (callers check HasLine)
Line(b) == b.lines[b.cy + 1]

SetLine(b, l) == [b EXCEPT !.lines[b.cy + 1] = l]

\* move_caret with the row window compared against roff itself
MoveCaret_RoffSelfCompare(b, row, col) ==
    IF b.panicked THEN b
    ELSE
    LET num_lines == Len(b.lines)
        cyI == Min(Max(b.cy + row, 0), num_lines - 1)
    IN  IF cyI < 0 THEN Panic(b)
        ELSE
        LET roff1 == IF cyI < b.roff THEN cyI
                     ELSE IF b.roff > b.roff + (b.h - 2) THEN cyI - (b.h - 2)
                     ELSE b.roff
            line_len == Len(b.lines[cyI + 1])
            cx1 == Min(Max(b.cx + col, 0), line_len)
            coff1 == IF cx1 < b.coff THEN cx1
                     ELSE IF cx1 > b.coff + (b.w - 1) THEN cx1 - (b.w - 1)
                     ELSE b.coff
        IN  [b EXCEPT !.cy = cyI, !.roff = roff1, !.cx = cx1, !.coff = coff1]

\* move_caret that scrolls the cursor's row to the top of the window
MoveCaret_ScrollsToTop(b, row, col) ==
    IF b.panicked THEN b
    ELSE
    LET num_lines == Len(b.lines)
        cyI == Min(Max(b.cy + row, 0), num_lines - 1)
    IN  IF cyI < 0 THEN Panic(b)
        ELSE
        LET roff1 == IF cyI < b.roff THEN cyI
                     ELSE IF cyI > b.roff + (b.h - 2) THEN cyI
                     ELSE b.roff
            line_len == Len(b.lines[cyI + 1])
            cx1 == Min(Max(b.cx + col, 0), line_len)
            coff1 == IF cx1 < b.coff THEN cx1
                     ELSE IF cx1 > b.coff + (b.w - 1) THEN cx1 - (b.w - 1)
                     ELSE b.coff
        IN  [b EXCEPT !.cy = cyI, !.roff = roff1, !.cx = cx1, !.coff = coff1]

MoveCaret(b, row, col) ==
    IF b.panicked THEN b
    ELSE
    LET num_lines == Len(b.lines)
        cyI == Min(Max(b.cy + row, 0), num_lines - 1)
    IN  \* num_lines = 0: -1 as usize is usize::MAX and self.line() unwraps None
        IF cyI < 0 THEN Panic(b)
        ELSE
        LET roff1 == IF cyI < b.roff THEN cyI
                     ELSE IF cyI > b.roff + (b.h - 2) THEN cyI - (b.h - 2)
                     ELSE b.roff
            line_len == Len(b.lines[cyI + 1])
            cx1 == Min(Max(b.cx + col, 0), line_len)
            coff1 == IF cx1 < b.coff THEN cx1
                     ELSE IF cx1 > b.coff + (b.w - 1) THEN cx1 - (b.w - 1)
                     ELSE b.coff
        IN  [b EXCEPT !.cy = cyI, !.roff = roff1, !.cx = cx1, !.coff = coff1]

\* push that inserts the new line above the current one
Push_InsertsAbove(b, c) ==
    IF b.panicked THEN b
    ELSE IF ~HasLine(b) THEN Panic(b)
    ELSE IF b.cx > Len(Line(b)) THEN Panic(b)
    ELSE IF c = NL THEN
        LET new_line == SubSeq(Line(b), b.cx + 1, Len(Line(b)))
            b1 == SetLine(b, SubSeq(Line(b), 1, b.cx))
            b2 == [b1 EXCEPT !.lines = VecInsert(b1.lines, b.cy, new_line)]
        IN  MoveCaret(b2, 1, -(b.cy))
    ELSE
        MoveCaret(SetLine(b, VecInsert(Line(b), b.cx, c)), 0, 1)

Push(b, c) ==
    IF b.panicked THEN b
    ELSE IF ~HasLine(b) THEN Panic(b)
    ELSE IF b.cx > Len(Line(b)) THEN Panic(b)
    ELSE IF c = NL THEN
        LET new_line == SubSeq(Line(b), b.cx + 1, Len(Line(b)))
            b1 == SetLine(b, SubSeq(Line(b), 1, b.cx))
            b2 == [b1 EXCEPT !.lines = VecInsert(b1.lines, b.cy + 1, new_line)]
        IN  MoveCaret(b2, 1, -(b.cy))
    ELSE
        MoveCaret(SetLine(b, VecInsert(Line(b), b.cx, c)), 0, 1)

\* backspace that joins at column 0 without testing the row
Backspace_NoRowCheck(b) ==
    IF b.panicked THEN b
    ELSE IF b.cx = 0 THEN
        IF ~HasLine(b) THEN Panic(b)
        ELSE
        LET line == b.lines[b.cy + 1]
            b1 == [b EXCEPT !.lines = VecRemove(b.lines, b.cy)]
            b2 == MoveCaret(b1, -1, 0)
        IN  IF b2.panicked \/ ~HasLine(b2) THEN Panic(b)
            ELSE
            LET len == Len(Line(b2)) - b.cx
                b3 == MoveCaret(b2, 0, len)
            IN  SetLine(b3, Line(b3) \o line)
    ELSE
        IF ~HasLine(b) THEN Panic(b)
        ELSE IF b.cx - 1 >= Len(Line(b)) THEN Panic(b)
        ELSE MoveCaret(SetLine(b, VecRemove(Line(b), b.cx - 1)), 0, -1)

\* backspace that joins the lines but leaves the column at 0
Backspace_NoColumnMove(b) ==
    IF b.panicked THEN b
    ELSE IF b.cx = 0 /\ b.cy # 0 THEN
        IF ~HasLine(b) THEN Panic(b)
        ELSE
        LET line == b.lines[b.cy + 1]
            b1 == [b EXCEPT !.lines = VecRemove(b.lines, b.cy)]
            b2 == MoveCaret(b1, -1, 0)
        IN  IF b2.panicked \/ ~HasLine(b2) THEN Panic(b)
            ELSE SetLine(b2, Line(b2) \o line)
    ELSE IF b.cx # 0 THEN
        IF ~HasLine(b) THEN Panic(b)
        ELSE IF b.cx - 1 >= Len(Line(b)) THEN Panic(b)
        ELSE MoveCaret(SetLine(b, VecRemove(Line(b), b.cx - 1)), 0, -1)
    ELSE b

Backspace(b) ==
    IF b.panicked THEN b
    ELSE IF b.cx = 0 /\ b.cy # 0 THEN
        IF ~HasLine(b) THEN Panic(b)
        ELSE
        LET line == b.lines[b.cy + 1]
            b1 == [b EXCEPT !.lines = VecRemove(b.lines, b.cy)]
            b2 == MoveCaret(b1, -1, 0)
        IN  IF b2.panicked \/ ~HasLine(b2) THEN Panic(b)
            ELSE
            LET len == Len(Line(b2)) - b.cx
                b3 == MoveCaret(b2, 0, len)
            IN  SetLine(b3, Line(b3) \o line)
    ELSE IF b.cx # 0 THEN
        IF ~HasLine(b) THEN Panic(b)
        ELSE IF b.cx - 1 >= Len(Line(b)) THEN Panic(b)
        ELSE MoveCaret(SetLine(b, VecRemove(Line(b), b.cx - 1)), 0, -1)
    ELSE b

\* delete that puts the next line in front of the current one
Delete_JoinsInFront(b) ==
    IF b.panicked THEN b
    ELSE IF ~HasLine(b) THEN Panic(b)
    ELSE IF b.cx = Len(Line(b)) /\ b.cy # Len(b.lines) - 1 THEN
        LET line == b.lines[b.cy + 2]
            b1 == [b EXCEPT !.lines = VecRemove(b.lines, b.cy + 1)]
        IN  SetLine(b1, line \o Line(b1))
    ELSE IF b.cx # Len(Line(b)) THEN
        IF b.cx >= Len(Line(b)) THEN Panic(b)
        ELSE SetLine(b, VecRemove(Line(b), b.cx))
    ELSE b

\* delete that moves the caret left after removing the character
Delete_MovesLeft(b) ==
    IF b.panicked THEN b
    ELSE IF ~HasLine(b) THEN Panic(b)
    ELSE IF b.cx = Len(Line(b)) /\ b.cy # Len(b.lines) - 1 THEN
        LET line == b.lines[b.cy + 2]
            b1 == [b EXCEPT !.lines = VecRemove(b.lines, b.cy + 1)]
        IN  SetLine(b1, Line(b1) \o line)
    ELSE IF b.cx # Len(Line(b)) THEN
        IF b.cx >= Len(Line(b)) THEN Panic(b)
        ELSE MoveCaret(SetLine(b, VecRemove(Line(b), b.cx)), 0, -1)
    ELSE b

Delete(b) ==
    IF b.panicked THEN b
    ELSE IF ~HasLine(b) THEN Panic(b)
    ELSE IF b.cx = Len(Line(b)) /\ b.cy # Len(b.lines) - 1 THEN
        LET line == b.lines[b.cy + 2]
            b1 == [b EXCEPT !.lines = VecRemove(b.lines, b.cy + 1)]
        IN  SetLine(b1, Line(b1) \o line)
    ELSE IF b.cx # Len(Line(b)) THEN
        IF b.cx >= Len(Line(b)) THEN Panic(b)
        ELSE SetLine(b, VecRemove(Line(b), b.cx))
    ELSE b

RECURSIVE PushTimes(_, _, _)
PushTimes(b, c, n) == IF n = 0 THEN b ELSE PushTimes(Push(b, c), c, n - 1)

\* ---- Editor ----
\* input: what the program consumed last (the file read by open, or the
\* event polled by handle_keys)
NoKey == [key |-> "init", ch |-> "", file |-> <<>>]
Key(k) == [key |-> k, ch |-> "", file |-> <<>>]
KeyCh(c) == [key |-> "Char", ch |-> c, file |-> <<>>]
Opened(f) == [key |-> "open", ch |-> "", file |-> f]

\* the terminal: constructed by Editor::new, alternate screen and raw mode
\* entered by Editor::run
NoTerm == [constructed |-> FALSE, alt |-> FALSE, raw |-> FALSE]

\* draw_screen, lines 162-178: the rows painted, h - 1 of them, each the
\* window of a line or the filler "~"
DrawRows(b) ==
    [i \in 1..(b.h - 1) |->
        LET r == b.roff + i - 1
        IN  IF r < Len(b.lines)
            THEN LET line == b.lines[r + 1]
                 IN  IF Len(line) < b.coff THEN <<>>
                     ELSE SubSeq(line, b.coff + 1, Min(b.coff + b.w, Len(line)))
            ELSE <<"~">>]

\* draw_screen, lines 180-186: the cursor-position instruction (x, y) sent
\* after the rows; it is what the variable screen keeps of the last drawing
DrawScreen(b) == [x |-> b.cx, y |-> b.cy]

NoScreen == [x |-> 0, y |-> 0]

\* open that adds the lines read to the ones the Buffer has
Open_Appends(b, f) == [b EXCEPT !.lines = b.lines \o ReadLines(f)]

\* Editor::open on a readable file with text f
Open(b, f) == [b EXCEPT !.lines = ReadLines(f)]

Init ==
    /\ buffer = BufferDefault
    /\ should_quit = FALSE
    /\ pc = "start"
    /\ input = NoKey
    /\ args \in 1..3
    /\ prev = BufferDefault
    /\ term = NoTerm
    /\ usage = FALSE
    /\ screen = NoScreen

\* main, line 254: Editor::new builds the terminal and a default Buffer with
\* the terminal's dimensions
EditorNew ==
    /\ pc = "start"
    /\ \E w \in 1..MaxW, h \in 2..MaxH :
          buffer' = [BufferDefault EXCEPT !.w = w, !.h = h]
    /\ term' = [term EXCEPT !.constructed = TRUE]
    /\ pc' = "main"
    /\ UNCHANGED <<should_quit, input, args, prev, usage, screen>>

\* Editor::new fails (capabilities or terminal): main returns the error
EditorNewErr ==
    /\ pc = "start"
    /\ pc' = "exit"
    /\ UNCHANGED <<buffer, should_quit, input, args, prev, term, usage, screen>>

\* main with args.len() == 2: Editor::open reads the file, then run enters
\* the alternate screen and raw mode, flushes and reaches the loop
MainOpen ==
    /\ pc = "main" /\ args = 2
    /\ \E f \in Files :
          /\ buffer' = Open(buffer, f)
          /\ input' = Opened(f)
    /\ term' = [term EXCEPT !.alt = TRUE, !.raw = TRUE]
    /\ pc' = "loop"
    /\ UNCHANGED <<should_quit, args, prev, usage, screen>>

\* main with args.len() == 2 and File::open failing: the error is returned
MainOpenErr ==
    /\ pc = "main" /\ args = 2
    /\ pc' = "exit"
    /\ UNCHANGED <<buffer, should_quit, input, args, prev, term, usage, screen>>

\* the file is read but run fails before the loop: in
\* enter_alternate_screen (stage 1), set_raw_mode (2) or the first flush (3)
RunErr ==
    /\ pc = "main" /\ args = 2
    /\ \E f \in Files :
          /\ buffer' = Open(buffer, f)
          /\ input' = Opened(f)
    /\ \E stage \in 1..3 :
          term' = [term EXCEPT !.alt = stage > 1, !.raw = stage > 2]
    /\ pc' = "exit"
    /\ UNCHANGED <<should_quit, args, prev, usage, screen>>

\* main with any other number of arguments: usage message, return
MainUsage ==
    /\ pc = "main" /\ args # 2
    /\ usage' = TRUE
    /\ pc' = "exit"
    /\ UNCHANGED <<buffer, should_quit, input, args, prev, term, screen>>

\* an iteration that does not break out of the loop when the flag is set
Iterate_NoBreak(k, b, quit) ==
    /\ pc = "loop"
    /\ screen' = DrawScreen(buffer)
    /\ input' = k
    /\ buffer' = b
    /\ should_quit' = quit
    /\ pc' = IF b.panicked THEN "panicked" ELSE "loop"
    /\ prev' = buffer
    /\ UNCHANGED <<args, term, usage>>

\* One iteration of the loop of Editor::run: draw_screen and flush, then
\* handle_keys polled event k and left the Buffer as b and the quit flag as
\* quit; the loop breaks when the flag is set.  input records the event and
\* prev the Buffer the event was applied to.
Iterate(k, b, quit) ==
    /\ pc = "loop"
    /\ screen' = DrawScreen(buffer)
    /\ input' = k
    /\ buffer' = b
    /\ should_quit' = quit
    /\ pc' = IF b.panicked THEN "panicked" ELSE IF quit THEN "exit" ELSE "loop"
    /\ prev' = buffer
    /\ UNCHANGED <<args, term, usage>>

KeyQuit == Iterate(Key("CtrlQ"), buffer, TRUE)

KeyTab ==
    /\ TotalChars(buffer.lines) <= MaxTabAt
    /\ Iterate(Key("Tab"), PushTimes(buffer, Space, TabWidth), should_quit)

KeyChar ==
    /\ TotalChars(buffer.lines) < MaxChars
    /\ \E c \in Chars : Iterate(KeyCh(c), Push(buffer, c), should_quit)

KeyEnter ==
    /\ Len(buffer.lines) < MaxLines
    /\ Iterate(Key("Enter"), Push(buffer, NL), should_quit)

KeyLeft  == Iterate(Key("Left"),  MoveCaret(buffer, 0, -1), should_quit)
KeyRight == Iterate(Key("Right"), MoveCaret(buffer, 0, 1),  should_quit)
KeyUp    == Iterate(Key("Up"),    MoveCaret(buffer, -1, 0), should_quit)
KeyDown  == Iterate(Key("Down"),  MoveCaret(buffer, 1, 0),  should_quit)

KeyBackspace == Iterate(Key("Backspace"), Backspace(buffer), should_quit)
KeyDelete    == Iterate(Key("Delete"),    Delete(buffer),    should_quit)

\* any other event, or Ok(None)
KeyOther == Iterate(Key("Other"), buffer, should_quit)

\* poll_input returns Err
PollErr == Iterate(Key("Err"), buffer, TRUE)

\* the flush after draw_screen fails: run returns the error without polling
FlushErr ==
    /\ pc = "loop"
    /\ screen' = DrawScreen(buffer)
    /\ input' = Key("FlushErr")
    /\ prev' = buffer
    /\ pc' = "exit"
    /\ UNCHANGED <<buffer, should_quit, args, term, usage>>

Next ==
    \/ EditorNew \/ EditorNewErr
    \/ MainOpen \/ MainOpenErr \/ RunErr \/ MainUsage
    \/ KeyQuit \/ KeyTab \/ KeyChar \/ KeyEnter
    \/ KeyLeft \/ KeyRight \/ KeyUp \/ KeyDown
    \/ KeyBackspace \/ KeyDelete \/ KeyOther \/ PollErr \/ FlushErr

Spec == Init /\ [][Next]_vars

TypeOK ==
    /\ pc \in {"start", "main", "loop", "exit", "panicked"}
    /\ should_quit \in BOOLEAN
    /\ usage \in BOOLEAN
    /\ buffer.cx \in Nat /\ buffer.cy \in Nat
    /\ buffer.roff \in Nat /\ buffer.coff \in Nat

\* ---- properties ----
\* the last event was handled by an operation that sets the cursor
CursorKeys == {"Tab", "Char", "Enter", "Left", "Right", "Up", "Down", "Backspace"}
EditKeys   == CursorKeys \cup {"Delete"}

\* C1: the Document always contains at least one line, also after loading
\* an empty file.
C1_AtLeastOneLine == Len(buffer.lines) >= 1

\* C2: after every operation (push, backspace, delete, move_caret) that
\* returns, the cursor satisfies 0 <= cy < len(lines) and
\* 0 <= cx <= len(lines[cy]).
C2_CursorInBounds ==
    (input.key \in EditKeys /\ ~buffer.panicked) =>
        /\ 0 <= buffer.cy /\ buffer.cy < Len(buffer.lines)
        /\ 0 <= buffer.cx /\ buffer.cx <= Len(buffer.lines[buffer.cy + 1])

\* C3: with h >= 2 and w >= 1, after every operation that moves the cursor
\* (move_caret, push, backspace) the cursor is inside the viewport:
\* roff <= cy <= roff + h - 2 and coff <= cx <= coff + w - 1.
C3_CursorVisible ==
    (input.key \in CursorKeys /\ buffer.h >= 2 /\ buffer.w >= 1) =>
        /\ buffer.roff <= buffer.cy /\ buffer.cy <= buffer.roff + buffer.h - 2
        /\ buffer.coff <= buffer.cx /\ buffer.cx <= buffer.coff + buffer.w - 1

\* a cursor move has scrolled the viewport on both axes
C3_Witness ==
    /\ input.key \in CursorKeys /\ ~buffer.panicked
    /\ buffer.roff > 0 /\ buffer.coff > 0
    /\ buffer.cy # prev.cy

\* C4: push('\n') at (row r, column k) of a line of length n keeps the first
\* k characters in line r, puts the other n - k in a new line r + 1 and
\* leaves the cursor at column 0 of row r + 1.
C4_NewlineSplits ==
    (input.key = "Enter" /\ HasLine(prev)) =>
        LET r == prev.cy
            k == prev.cx
            line == Line(prev)
        IN  /\ ~buffer.panicked
            /\ buffer.lines = SubSeq(prev.lines, 1, r)
                                \o << SubSeq(line, 1, k), SubSeq(line, k + 1, Len(line)) >>
                                \o SubSeq(prev.lines, r + 2, Len(prev.lines))
            /\ buffer.cy = r + 1
            /\ buffer.cx = 0

\* C5: push('\n') followed immediately by backspace restores the line
\* sequence and the cursor position.
C5_NewlineBackspaceRoundTrip ==
    (input.key = "Enter" /\ HasLine(prev)) =>
        LET b == Backspace(buffer)
        IN  /\ ~b.panicked
            /\ b.lines = prev.lines
            /\ b.cx = prev.cx
            /\ b.cy = prev.cy

\* delete at the end of a line that is not the last one
DeleteJoins(b) ==
    HasLine(b) /\ b.cx = Len(Line(b)) /\ b.cy # Len(b.lines) - 1

\* C6: delete at the end of a non-last line followed by push('\n') at the
\* same position restores the original line sequence.
C6_DeleteNewlineRestores ==
    (input.key = "Delete" /\ DeleteJoins(prev)) =>
        LET b == Push(buffer, NL)
        IN  ~b.panicked /\ b.lines = prev.lines

\* delete has joined two non-empty lines, and the newline splits them again
C6_Witness ==
    /\ input.key = "Delete" /\ DeleteJoins(prev)
    /\ prev.cx > 0 /\ Len(prev.lines[prev.cy + 2]) > 0
    /\ Len(buffer.lines) = Len(prev.lines) - 1
    /\ Push(buffer, NL).lines = prev.lines

\* C7: backspace at column 0 of row r > 0 appends line r to line r - 1,
\* removes line r and leaves the cursor at row r - 1, at the column equal to
\* the length line r - 1 had before.
C7_BackspaceJoins ==
    (input.key = "Backspace" /\ prev.cx = 0 /\ prev.cy > 0) =>
        LET r == prev.cy
        IN  /\ ~buffer.panicked
            /\ Len(buffer.lines) = Len(prev.lines) - 1
            /\ buffer.lines = SubSeq(prev.lines, 1, r - 1)
                                \o << prev.lines[r] \o prev.lines[r + 1] >>
                                \o SubSeq(prev.lines, r + 2, Len(prev.lines))
            /\ buffer.cy = r - 1
            /\ buffer.cx = Len(prev.lines[r])

\* backspace has joined two non-empty lines
C7_Witness ==
    /\ input.key = "Backspace" /\ prev.cx = 0 /\ prev.cy > 0
    /\ Len(prev.lines[prev.cy]) > 0 /\ Len(prev.lines[prev.cy + 1]) > 0
    /\ buffer.cx = Len(prev.lines[prev.cy])
    /\ Len(buffer.lines) = Len(prev.lines) - 1

\* C8: delete never changes the cursor: at the end of a non-last line it
\* appends the next line and removes it, at the end of the last line it
\* leaves the Buffer unchanged, before the end of a line it removes exactly
\* the character at the cursor column; cx and cy stay as they were.
C8_DeleteKeepsCursor ==
    input.key = "Delete" =>
        LET r == prev.cy
            k == prev.cx
        IN  /\ buffer.cx = k /\ buffer.cy = r
            /\ DeleteJoins(prev) =>
                  buffer.lines = SubSeq(prev.lines, 1, r)
                                   \o << prev.lines[r + 1] \o prev.lines[r + 2] >>
                                   \o SubSeq(prev.lines, r + 3, Len(prev.lines))
            /\ (HasLine(prev) /\ k = Len(Line(prev)) /\ r = Len(prev.lines) - 1) =>
                  buffer = prev
            /\ (HasLine(prev) /\ k < Len(Line(prev))) =>
                  buffer.lines = [prev.lines EXCEPT
                                    ![r + 1] = SubSeq(@, 1, k) \o SubSeq(@, k + 2, Len(@))]

\* delete has removed a character from the middle of a line
C8_Witness ==
    /\ input.key = "Delete" /\ HasLine(prev)
    /\ 0 < prev.cx /\ prev.cx < Len(Line(prev))
    /\ Len(Line(buffer)) = Len(Line(prev)) - 1
    /\ buffer.cx = prev.cx /\ buffer.cy = prev.cy

ArrowKeys == {"Left", "Right", "Up", "Down"}
DeltaRow(k) == IF k = "Up" THEN -1 ELSE IF k = "Down" THEN 1 ELSE 0
DeltaCol(k) == IF k = "Left" THEN -1 ELSE IF k = "Right" THEN 1 ELSE 0

\* the cursor move_caret(dr, dc) is said to produce from b
ClampedMove(b, after, dr, dc) ==
    LET row == Min(Max(b.cy + dr, 0), Len(b.lines) - 1)
    IN  /\ ~after.panicked
        /\ after.cy = row
        /\ after.cx = Min(Max(b.cx + dc, 0), Len(b.lines[row + 1]))

\* C9: move_caret(delta_row, delta_col) returns with row =
\* clamp(row + delta_row, 0, len(lines) - 1) and column =
\* clamp(column + delta_col, 0, len(lines[new row])); no request is wrapped
\* or rejected.
C9_MoveCaretClamps ==
    input.key \in ArrowKeys =>
        ClampedMove(prev, buffer, DeltaRow(input.key), DeltaCol(input.key))

\* C9 on a Buffer with the cursor on a line, for every pair of deltas
\* (out-of-range ones included)
C9_ClampsOnLine ==
    (pc = "loop" /\ HasLine(buffer)) =>
        \A dr \in -4..4, dc \in -5..5 :
            ClampedMove(buffer, MoveCaret(buffer, dr, dc), dr, dc)

\* C10: in every state of the editing loop move_caret(0, 0) returns and
\* leaves roff, coff, cx and cy as they were.
C10_DerivationIdempotent == pc = "loop" => MoveCaret(buffer, 0, 0) = buffer

\* C10 on a Buffer with the cursor on a line
C10_IdempotentOnLine ==
    (pc = "loop" /\ HasLine(buffer)) => MoveCaret(buffer, 0, 0) = buffer

\* C2 on a Buffer that had the cursor on a line before the operation
C2_InBoundsOnLine ==
    (input.key \in EditKeys /\ HasLine(prev)) =>
        /\ ~buffer.panicked
        /\ buffer.cy < Len(buffer.lines)
        /\ buffer.cx <= Len(buffer.lines[buffer.cy + 1])

\* C11: with zero positional arguments (args.len() = 1) the program does not
\* take the usage path but starts the editing loop on an empty Document;
\* with one it loads the file; with more it prints the usage error, opens no
\* document and never enters the loop.
C11_Dispatch ==
    (term.constructed /\ pc \notin {"start", "main"}) =>
        /\ args = 1 => (~usage /\ term.alt /\ term.raw)
        /\ args = 2 => (~usage /\ input.key # "init")
        /\ args > 2 => /\ usage /\ pc = "exit"
                       /\ input = NoKey
                       /\ buffer.lines = BufferDefault.lines
                       /\ ~term.alt /\ ~term.raw

\* C12: with two command-line arguments (args.len() = 3), when the usage
\* error is reported no terminal has been constructed and neither the
\* alternate screen nor raw mode has been entered.
C12_NoTerminalInit ==
    (args = 3 /\ usage) => term = NoTerm

\* C13: once the quit flag is set (quit key or poll error) the loop has
\* exited in that same iteration: that event is the last one polled, it is
\* not retried, and no Buffer operation was applied by it or after it.
C13_QuitExits ==
    /\ should_quit =>
          /\ pc = "exit"
          /\ input.key \in {"CtrlQ", "Err"}
          /\ buffer = prev
    /\ input.key \in {"CtrlQ", "Err"} => should_quit

\* the session ended on a poll error after some editing
C13_Witness ==
    /\ should_quit /\ pc = "exit" /\ input.key = "Err"
    /\ TotalChars(buffer.lines) > 0 /\ buffer.cx > 0

\* the lines as one text, joined by newlines
RECURSIVE Flat(_)
Flat(ls) ==
    IF ls = <<>> THEN <<>>
    ELSE IF Len(ls) = 1 THEN Head(ls)
    ELSE Head(ls) \o <<NL>> \o Flat(Tail(ls))

StripFinalNL(f) ==
    IF f # <<>> /\ f[Len(f)] = NL THEN SubSeq(f, 1, Len(f) - 1) ELSE f

\* C14: load replaces the whole line sequence by the lines read from the
\* file and leaves the cursor and both viewport offsets at the origin.
C14_LoadReplaces ==
    input.key = "open" =>
        /\ buffer.lines = ReadLines(input.file)
        /\ Flat(buffer.lines) = StripFinalNL(input.file)
        /\ \A i \in 1..Len(buffer.lines) :
              \A j \in 1..Len(buffer.lines[i]) : buffer.lines[i][j] # NL
        /\ buffer.cx = 0 /\ buffer.cy = 0
        /\ buffer.roff = 0 /\ buffer.coff = 0

\* a file of two non-empty lines has been loaded
C14_Witness ==
    /\ input.key = "open" /\ pc = "loop"
    /\ Len(buffer.lines) = 2
    /\ Len(buffer.lines[1]) > 0 /\ Len(buffer.lines[2]) > 0
    /\ buffer.cx = 0 /\ buffer.cy = 0

\* the offset move_caret derives for a position pos and a window of
\* span + 1 cells starting at off
ScrollTo(off, pos, span) ==
    IF pos < off THEN pos
    ELSE IF pos > off + span THEN pos - span
    ELSE off

RECURSIVE MoveTimes(_, _, _, _)
MoveTimes(b, row, col, n) ==
    IF n <= 0 THEN b ELSE MoveTimes(MoveCaret(b, row, col), row, col, n - 1)

\* the Buffer of the scenario: 10 empty lines, height 5, cursor at the origin
ScenarioBuffer ==
    [BufferDefault EXCEPT !.w = 1, !.h = 5, !.lines = [i \in 1..10 |-> <<>>]]

\* C16: move_caret scrolls by the least amount: the new row_offset is the
\* row if the row is above the window, row - (h - 2) if it is below, and
\* the old one otherwise (col_offset alike with w - 1); so unit down-moves
\* from row 0 to row N - 1 end with row_offset = max(0, N - 1 - (h - 2)),
\* which is 6 for N = 10 and h = 5.
C16_MinimalScroll ==
    /\ input.key \in CursorKeys =>
          /\ buffer.roff = ScrollTo(prev.roff, buffer.cy, buffer.h - 2)
          /\ buffer.coff = ScrollTo(prev.coff, buffer.cx, buffer.w - 1)
    /\ (input.key = "open" /\ pc = "loop" /\ Len(buffer.lines) >= 1) =>
          LET N == Len(buffer.lines)
              b == MoveTimes(buffer, 1, 0, N - 1)
          IN  /\ b.cy = N - 1
              /\ b.roff = Max(0, N - 1 - (buffer.h - 2))
    /\ pc = "start" =>
          LET b == MoveTimes(ScenarioBuffer, 1, 0, Len(ScenarioBuffer.lines) - 1)
          IN  b.cy = 9 /\ b.roff = 6

\* a down-move to the last row has scrolled the window by one row
C16_Witness ==
    /\ input.key = "Down" /\ ~buffer.panicked
    /\ buffer.cy = Len(buffer.lines) - 1
    /\ buffer.cy = prev.cy + 1
    /\ buffer.roff = prev.roff + 1
    /\ buffer.roff = buffer.cy - (buffer.h - 2)

\* the number of characters typed in the check of C17
MaxTyped == 4

RECURSIVE TypeAll(_, _)
TypeAll(b, s) == IF s = <<>> THEN b ELSE TypeAll(Push(b, Head(s)), Tail(s))

\* a typed text split at its line-breaks (a final line-break opens a line)
RECURSIVE SplitFrom(_, _)
SplitFrom(s, cur) ==
    IF s = <<>> THEN <<cur>>
    ELSE IF Head(s) = NL THEN <<cur>> \o SplitFrom(Tail(s), <<>>)
    ELSE SplitFrom(Tail(s), Append(cur, Head(s)))

TypedAsSplit(b0, s) ==
    LET b == TypeAll(b0, s)
        want == SplitFrom(s, <<>>)
    IN  /\ ~b.panicked
        /\ b.lines = want
        /\ b.cy = Len(want) - 1
        /\ b.cx = Len(want[Len(want)])

\* C17: from the empty Document (one empty line, cursor at the origin),
\* typing characters and line-breaks without moving the cursor yields the
\* typed text split at the line-breaks, the cursor at the end of the last
\* line; "ab", line-break, "c" gives ["ab", "c"] and the cursor at (1, 1).
C17_TypingBuildsText ==
    (pc \in {"main", "loop"} /\ input.key \in {"init", "open"}
        /\ buffer.lines = << <<>> >> /\ buffer.cx = 0 /\ buffer.cy = 0) =>
        /\ \A s \in SeqsUpTo(Chars \cup {NL}, MaxTyped) : TypedAsSplit(buffer, s)
        /\ LET b == TypeAll(buffer, <<"a", "b", NL, "c">>)
           IN  /\ b.lines = << <<"a", "b">>, <<"c">> >>
               /\ b.cx = 1 /\ b.cy = 1

\* a character, a line-break and a character have been typed into the
\* one-empty-line Document
C17_Witness ==
    /\ input.key = "Char" /\ pc = "loop"
    /\ prev.lines = << <<"a">>, <<>> >> /\ prev.cx = 0 /\ prev.cy = 1
    /\ buffer = TypeAll([buffer EXCEPT !.lines = << <<>> >>, !.cx = 0, !.cy = 0,
                                       !.roff = 0, !.coff = 0],
                        <<"a", NL, "a">>)

\* C18: backspace at column 0 of row 0 changes nothing: lines, cursor and
\* both viewport offsets stay as they were.
C18_BackspaceAtOrigin ==
    (input.key = "Backspace" /\ prev.cx = 0 /\ prev.cy = 0) => buffer = prev

\* backspace was pressed at the origin of a Document with text in two lines
C18_Witness ==
    /\ input.key = "Backspace" /\ prev.cx = 0 /\ prev.cy = 0
    /\ Len(prev.lines) >= 2 /\ Len(prev.lines[1]) > 0
    /\ buffer.lines = prev.lines /\ buffer.cx = 0 /\ buffer.cy = 0

\* the cursor's offset in the flat text
Offset(b) ==
    Len(Flat(SubSeq(b.lines, 1, b.cy))) + (IF b.cy > 0 THEN 1 ELSE 0) + b.cx

FlatEdit(before, after, k, c) ==
    LET t == Flat(before.lines)
        o == Offset(before)
    IN  /\ k = "Char" => Flat(after.lines) = VecInsert(t, o, c)
        /\ k = "Enter" => Flat(after.lines) = VecInsert(t, o, NL)
        /\ k = "Tab" => Flat(after.lines) =
                           SubSeq(t, 1, o) \o [i \in 1..TabWidth |-> Space]
                                           \o SubSeq(t, o + 1, Len(t))
        /\ k = "Backspace" => Flat(after.lines) =
                           (IF o = 0 THEN t ELSE VecRemove(t, o - 1))
        /\ k = "Delete" => Flat(after.lines) = VecRemove(t, o)
        /\ k \in ArrowKeys => after.lines = before.lines

\* C19: on the lines seen as one text joined by newlines, push(c) inserts
\* exactly c at the cursor, backspace removes exactly the character or
\* separator before the cursor (nothing at the start), delete removes
\* exactly the one at the cursor (nothing at the end), and move_caret does
\* not change the text.
C19_FlatTextEdits == FlatEdit(prev, buffer, input.key, input.ch)

\* C19 on a Buffer that had the cursor on a line before the operation
C19_FlatOnLine == HasLine(prev) => FlatEdit(prev, buffer, input.key, input.ch)

\* every drawing paints h - 1 rows of at most w cells each
DrawRowsFit ==
    pc = "loop" =>
        /\ Len(DrawRows(buffer)) = buffer.h - 1
        /\ \A i \in 1..(buffer.h - 1) : Len(DrawRows(buffer)[i]) <= buffer.w

\* C20: the cursor-position instruction of every draw_screen is the
\* cursor's place in the window, (cx - coff, cy - roff), and so lies on the
\* screen: x <= w - 1 and y <= h - 2.
C20_CursorInWindow ==
    input.key \notin {"init", "open"} =>
        /\ screen.x = prev.cx - prev.coff
        /\ screen.y = prev.cy - prev.roff
        /\ screen.x <= prev.w - 1
        /\ screen.y <= prev.h - 2
====
